---- MODULE Spec2Model ----
(***************************************************************************)
(* Model of the chat turn engine of ba-knowledge-base: the blocking and   *)
(* streaming send routes, the clear-messages and delete-chat routes       *)
(* (src/routes/messages.ts, src/routes/contacts.ts), the LangGraph        *)
(* pipeline retrieve -> reflect -> generate compiled with a Postgres      *)
(* checkpointer (src/graph/builder.ts, graph nodes) and the Milvus        *)
(* retrieval service.                                                      *)
(*                                                                         *)
(* Texts are sequences of characters.  Every await of a handler is one    *)
(* atomic step; requests interleave at awaits only (single-threaded       *)
(* event loop).                                                            *)
(***************************************************************************)
EXTENDS Integers, Sequences, FiniteSets, TLC

\* ---------------------------------------------------------------- bounds
NumReqs == 2
MaxFrags == 2
MaxReflectFrags == 1
MaxUpdMsgs == 2

\* ------------------------------------------------------- program constants
HistoryLimit == 20
SliceLen == 20
DefaultK == 5

Reqs == 1..NumReqs
Threads == {"t1", "t2"}
Users == {"u1", "u2"}
NoSession == "nosession"
Msgs == {<<"H", "i">>}

Absent == <<"undefined">>
NoChunk == <<"nochunk">>
Sep == <<"\n", "\n">>

\* The chats that exist at start and their creator and character.
ChatCreator == [t \in Threads |-> IF t = "t1" THEN "u1" ELSE "u2"]
ChatCharacter == [t \in Threads |-> IF t = "t1" THEN <<"A">> ELSE <<"B">>]

\* The contacts at start: each creator has the character of the chat as contact.
ChatContacts == {<<ChatCreator[t], ChatCharacter[t]>> : t \in Threads}

\* What the index holds for a character (content of the ranked hits).
IndexHits(characterName) ==
  IF characterName = <<"A">> THEN << <<"k">>, <<"l">> >> ELSE << <<"m">> >>

\* Fragments the model's LLM produces, by position in its output stream.
ReflectFrags == << <<"x">>, <<"y">>, <<"z">> >>
GenerateFrags == << <<"a">>, <<"b">>, <<"c">> >>

\* ---------------------------------------------------------------- helpers
Min(a, b) == IF a <= b THEN a ELSE b

RECURSIVE Concat(_)
Concat(ss) == IF ss = <<>> THEN <<>> ELSE Head(ss) \o Concat(Tail(ss))

RECURSIVE JoinWith(_, _)
JoinWith(ss, sep) ==
  IF ss = <<>> THEN <<>>
  ELSE IF Len(ss) = 1 THEN Head(ss)
  ELSE Head(ss) \o sep \o JoinWith(Tail(ss), sep)

Take(s, n) == SubSeq(s, 1, Min(Len(s), n))

\* msg.slice(0, 20)
Slice20(text) == Take(text, SliceLen)

\* the row -> HumanMessage / AIMessage mapping of the routes
ToLangChain(row) ==
  [type |-> IF row.role = "user" THEN "human" ELSE "ai", content |-> row.content]

MapLangChain(rows) == [i \in 1..Len(rows) |-> ToLangChain(rows[i])]

HumanMessage(text) == [type |-> "human", content |-> text]

\* ------------------------------------------------------------ agent state
\* Annotation.Root: messages has a concat reducer with default []; the other
\* channels are last-write-wins and start undefined.
EmptyState ==
  [characterName |-> Absent, messages |-> <<>>, context |-> Absent,
   reflection |-> Absent, response |-> Absent]

MessagesReducer(x, y) == x \o y

Fields == {"characterName", "messages", "context", "reflection", "response"}

\* MergeState with a last-write-wins `messages` channel
MergeStateLastWrite(st, upd) ==
  [f \in Fields |-> IF f \in DOMAIN upd THEN upd[f] ELSE st[f]]

\* Merge a partial update (a function on a subset of Fields) into a state.
MergeState(st, upd) ==
  [f \in Fields |->
     IF f \in DOMAIN upd
       THEN IF f = "messages" THEN MessagesReducer(st[f], upd[f]) ELSE upd[f]
       ELSE st[f]]

\* ------------------------------------------------------------------ state
VARIABLES
  chat,         \* chat table: [exists, creatorId, lastMessage] per chat id
  msgTable,     \* message table: rows of a chat in created_at order
  ckpt,         \* checkpoints table: latest [id, state] of a thread, or NoCkpt
  ckptWrites,   \* checkpoint_writes table: number of rows of a thread
  ckptBlobs,    \* checkpoint_blobs table: number of rows of a thread
  ckptSeq,      \* checkpoint ids handed out so far, per thread
  milvusLoaded, \* load state of the one Milvus collection
  contact,      \* user_character_contacts table: the (user, character) pairs
  req           \* the requests: position and locals of each handler

vars == <<chat, msgTable, ckpt, ckptWrites, ckptBlobs, ckptSeq, milvusLoaded, contact,
          req>>

NoCkpt == [id |-> 0, state |-> EmptyState]

IdleReq ==
  [pc |-> "idle", kind |-> "none", chatId |-> "none", user |-> "none",
   msg |-> <<>>, status |-> "none", input |-> <<>>, state |-> EmptyState,
   pre |-> NoCkpt, hits |-> <<>>, llmOut |-> <<>>, nFrag |-> 0,
   finalResponse |-> <<>>, events |-> <<>>, delivered |-> 0, closed |-> FALSE,
   connected |-> TRUE, raised |-> FALSE, txN |-> 0,
   delMsgs |-> FALSE, delCkpt |-> FALSE, overlap |-> {},
   characterId |-> <<>>, found |-> {}, todo |-> {}]

Init ==
  /\ chat = [t \in Threads |->
              [exists |-> TRUE, creatorId |-> ChatCreator[t],
               characterId |-> ChatCharacter[t], lastMessage |-> <<>>]]
  /\ msgTable = [t \in Threads |-> <<>>]
  /\ ckpt = [t \in Threads |-> NoCkpt]
  /\ ckptWrites = [t \in Threads |-> 0]
  /\ ckptBlobs = [t \in Threads |-> 0]
  /\ ckptSeq = [t \in Threads |-> 0]
  /\ milvusLoaded = FALSE
  /\ contact = ChatContacts
  /\ req = [r \in Reqs |-> IdleReq]


\* ----------------------------------------------------------- shared parts
\* a step of a message or chat-delete route: the locals of the request change,
\* the contact table is not touched
Upd(r, rec) == req' = [req EXCEPT ![r] = rec] /\ UNCHANGED contact

Tables == <<chat, msgTable, ckpt, ckptWrites, ckptBlobs, ckptSeq, milvusLoaded>>
CkptTables == <<ckpt, ckptWrites, ckptBlobs, ckptSeq>>

\* AuthStatus without the comparison of the creator with the session user
AuthStatusNoCreatorCheck(user, chatId) ==
  IF user = NoSession THEN "unauthorized"
  ELSE IF ~chat[chatId].exists THEN "not_found"
  ELSE "pass"

\* session check, chat lookup and creator check at the head of the message routes
AuthStatus(user, chatId) ==
  IF user = NoSession THEN "unauthorized"
  ELSE IF ~chat[chatId].exists THEN "not_found"
  ELSE IF chat[chatId].creatorId # user THEN "forbidden"
  ELSE "pass"

\* send requests that are being handled on a chat
InFlight(chatId) ==
  {q \in Reqs : /\ req[q].kind \in {"send", "stream"}
                /\ req[q].chatId = chatId
                /\ req[q].pc \notin {"idle", "done"}}

\* The handler returns: its locals are gone, what it answered remains.
Finish(rq, status) ==
  [rq EXCEPT !.pc = "done", !.status = status, !.input = <<>>,
             !.state = EmptyState, !.hits = <<>>, !.llmOut = <<>>, !.nFrag = 0,
             !.txN = 0]

\* requests are numbered in the order they arrive
Arrives(r) == req[r].pc = "idle" /\ \A q \in Reqs : q < r => req[q].pc # "idle"

\* A request enters a route: the head of the handler up to its first write.
Enter(r, kind, user, chatId, msg, first) ==
  LET st == AuthStatus(user, chatId)
      base == [req[r] EXCEPT !.kind = kind, !.chatId = chatId, !.user = user,
                             !.msg = msg]
      others == IF st = "pass" /\ kind \in {"send", "stream"}
                  THEN InFlight(chatId) ELSE {}
  IN req' = [q \in Reqs |->
               IF q = r
                 THEN IF st = "pass"
                        THEN [base EXCEPT !.pc = first, !.overlap = others]
                        ELSE Finish(base, st)
               ELSE IF q \in others
                 THEN [req[q] EXCEPT !.overlap = @ \cup {r}]
               ELSE req[q]]
     /\ UNCHANGED contact

\* stream.write: the record is emitted; the write to a connection that is gone
\* is dropped without an error, so the handler goes on as if it were delivered
Write(rq, type, content) ==
  [rq EXCEPT !.events = Append(@, [type |-> type, content |-> content]),
             !.delivered = IF rq.connected THEN @ + 1 ELSE @]

\* Caught with the catch inside the loop: the error is reported and the loop
\* goes on with the run
CaughtInsideLoop(rq) ==
  IF rq.kind = "send"
    THEN Finish([rq EXCEPT !.raised = TRUE], "internal_error")
    ELSE [Write(rq, "error", <<"e">>) EXCEPT !.raised = TRUE]

\* an error inside the try block: the catch of the blocking route answers 500
\* INTERNAL_ERROR, the catch of the streaming route goes on to write `error`
Caught(rq) ==
  IF rq.kind = "send"
    THEN Finish([rq EXCEPT !.raised = TRUE], "internal_error")
    ELSE [rq EXCEPT !.pc = "stream_catch", !.raised = TRUE, !.input = <<>>,
                    !.state = EmptyState, !.hits = <<>>, !.llmOut = <<>>,
                    !.nFrag = 0]

\* OnEvent that writes a `token` record for the first fragment only
OnEventFirstTokenOnly(rq, ev) ==
  IF ev.node = "reflect" /\ ev.chunk # NoChunk
    THEN Write(rq, "reflection_chunk", ev.chunk)
  ELSE IF ev.node = "generate" /\ ev.chunk # NoChunk
    THEN IF rq.finalResponse = <<>>
           THEN Write([rq EXCEPT !.finalResponse = @ \o ev.chunk], "token", ev.chunk)
           ELSE [rq EXCEPT !.finalResponse = @ \o ev.chunk]
  ELSE rq

\* OnEvent without the test of the originating node: every chunk is a token
OnEventUntagged(rq, ev) ==
  IF ev.chunk # NoChunk
    THEN Write([rq EXCEPT !.finalResponse = @ \o ev.chunk], "token", ev.chunk)
    ELSE rq

\* OnEvent with `finalResponse = token.content` in place of `+=`
OnEventAssign(rq, ev) ==
  IF ev.node = "reflect" /\ ev.chunk # NoChunk
    THEN Write(rq, "reflection_chunk", ev.chunk)
  ELSE IF ev.node = "generate" /\ ev.chunk # NoChunk
    THEN Write([rq EXCEPT !.finalResponse = ev.chunk], "token", ev.chunk)
  ELSE rq

\* the body of the `for await` loop of the streaming route for one event
OnEvent(rq, ev) ==
  IF ev.node = "reflect" /\ ev.chunk # NoChunk
    THEN Write(rq, "reflection_chunk", ev.chunk)
  ELSE IF ev.node = "generate" /\ ev.chunk # NoChunk
    THEN Write([rq EXCEPT !.finalResponse = @ \o ev.chunk], "token", ev.chunk)
  ELSE rq

RECURSIVE Consume(_, _)
Consume(rq, evs) ==
  IF evs = <<>> THEN rq ELSE Consume(OnEvent(rq, Head(evs)), Tail(evs))

\* the streaming route sees the events of the run, the blocking route does not
Observe(rq, evs) == IF rq.kind = "stream" THEN Consume(rq, evs) ELSE rq

\* PostgresSaver.put: a new checkpoint row (and its blobs) for the thread
PutCheckpoint(t, st) ==
  /\ ckpt' = [ckpt EXCEPT ![t] = [id |-> ckptSeq[t] + 1, state |-> st]]
  /\ ckptSeq' = [ckptSeq EXCEPT ![t] = @ + 1]
  /\ ckptBlobs' = [ckptBlobs EXCEPT ![t] = @ + 1]

\* PostgresSaver.putWrites: the write log entry of a finished node
PutWrites(t) == ckptWrites' = [ckptWrites EXCEPT ![t] = @ + 1]

\* ------------------------------------------------- send and send-stream
SendBegin(r) ==
  /\ Arrives(r)
  /\ \E user \in Users \cup {NoSession}, chatId \in Threads, msg \in Msgs :
       Enter(r, "send", user, chatId, msg, "insert_user")
  /\ UNCHANGED Tables

StreamBegin(r) ==
  /\ Arrives(r)
  /\ \E user \in Users \cup {NoSession}, chatId \in Threads, msg \in Msgs :
       Enter(r, "stream", user, chatId, msg, "insert_user")
  /\ UNCHANGED Tables

\* db.insert(tmsg) of the user message; it runs before the try block
InsertUserMessage(r) ==
  LET rq == req[r] t == rq.chatId IN
  /\ rq.pc = "insert_user"
  /\ \/ /\ chat[t].exists
        /\ msgTable' = [msgTable EXCEPT ![t] =
                          Append(@, [role |-> "user", content |-> rq.msg])]
        /\ Upd(r, [rq EXCEPT !.pc = "update_chat"])
     \/ /\ UNCHANGED msgTable
        /\ Upd(r, Finish(rq, "unhandled"))
  /\ UNCHANGED <<chat, CkptTables, milvusLoaded>>

\* db.update(chat) lastMessage: msg.slice(0, 20); it runs before the try block
UpdateChatUser(r) ==
  LET rq == req[r] t == rq.chatId IN
  /\ rq.pc = "update_chat"
  /\ \/ /\ chat' = [chat EXCEPT ![t].lastMessage =
                      IF chat[t].exists THEN Slice20(rq.msg) ELSE @]
        /\ Upd(r, [rq EXCEPT !.pc = "read_history"])
     \/ /\ UNCHANGED chat
        /\ Upd(r, Finish(rq, "unhandled"))
  /\ UNCHANGED <<msgTable, CkptTables, milvusLoaded>>

\* findMany(orderBy createdAt asc, limit 20) mapped to LangChain messages
HistoryMessages(t) == MapLangChain(Take(msgTable[t], HistoryLimit))

\* the blocking route pushes the new user message after the history
SendInput(t, msg) == Append(HistoryMessages(t), HumanMessage(msg))

\* the streaming route passes the history as read
StreamInput(t) == HistoryMessages(t)

ReadHistory(r) ==
  LET rq == req[r] t == rq.chatId IN
  /\ rq.pc = "read_history"
  /\ \/ Upd(r, [rq EXCEPT !.pc = "graph_load",
                          !.input = IF rq.kind = "send"
                                      THEN SendInput(t, rq.msg)
                                      ELSE StreamInput(t)])
     \/ Upd(r, Caught(rq))
  /\ UNCHANGED Tables


\* ---------------------------------------- characterGraph (invoke / stream)
\* The run loads the thread's checkpoint and merges the input into it with
\* the reducers of agentState.
GraphLoad(r) ==
  LET rq == req[r] t == rq.chatId IN
  /\ rq.pc = "graph_load"
  /\ \/ Upd(r, [rq EXCEPT
                  !.pc = "graph_input",
                  !.input = <<>>,
                  !.pre = ckpt[t],
                  !.state = MergeState(ckpt[t].state,
                              [messages |-> rq.input,
                               characterName |-> ChatCharacter[t]])])
     \/ Upd(r, Caught(rq))
  /\ UNCHANGED Tables

\* The checkpointer saves the state after the input is merged, before any node.
GraphInput(r) ==
  LET rq == req[r] t == rq.chatId IN
  /\ rq.pc = "graph_input"
  /\ PutCheckpoint(t, rq.state)
  /\ Upd(r, [rq EXCEPT !.pc = "retrieve_load"])
  /\ UNCHANGED <<chat, msgTable, ckptWrites, milvusLoaded>>

\* retrieveNode: embedQuery, then MilvusService.search: loadCollection
RetrieveLoad(r) ==
  LET rq == req[r] IN
  /\ rq.pc = "retrieve_load"
  /\ \/ /\ milvusLoaded' = TRUE
        /\ Upd(r, [rq EXCEPT !.pc = "retrieve_search"])
     \/ /\ UNCHANGED milvusLoaded
        /\ Upd(r, Caught(rq))
  /\ UNCHANGED <<chat, msgTable, CkptTables>>

\* what client.search answers: the top k hits of a loaded collection; a
\* collection that is not loaded answers no hit (or the call throws, below)
SearchResult(characterName, k) ==
  IF milvusLoaded THEN Take(IndexHits(characterName), k) ELSE <<>>

\* MilvusService.search: client.search
RetrieveSearch(r) ==
  LET rq == req[r] IN
  /\ rq.pc = "retrieve_search"
  /\ \/ Upd(r, [rq EXCEPT !.pc = "retrieve_release",
                          !.hits = SearchResult(rq.state.characterName, DefaultK)])
     \/ Upd(r, Caught(rq))
  /\ UNCHANGED Tables

\* results.map((r) => r.content).join('\n\n')
JoinContext(hits) == JoinWith(hits, Sep)

\* MilvusService.search: releaseCollection; retrieveNode returns {context};
\* the run merges it and saves the checkpoint of the step
RetrieveRelease(r) ==
  LET rq == req[r] t == rq.chatId
      context == JoinContext(rq.hits)
      st == MergeState(rq.state, [context |-> context])
  IN
  /\ rq.pc = "retrieve_release"
  /\ milvusLoaded' = FALSE
  /\ PutCheckpoint(t, st)
  /\ PutWrites(t)
  /\ Upd(r, Observe([rq EXCEPT !.pc = "reflect", !.state = st, !.hits = <<>>],
                    << [node |-> "retrieve", chunk |-> NoChunk],
                       [node |-> "retrieve", chunk |-> context] >>))
  /\ UNCHANGED <<chat, msgTable>>

\* the text an LLM call returns: its first n fragments, concatenated
LLMText(frags, n) == Concat(Take(frags, n))

\* reflectNode / generateNode under invoke: one LLM call, then the checkpoint
NodeInvoke(r, node, field, frags, lo, hi, next) ==
  LET rq == req[r] t == rq.chatId IN
  /\ rq.kind = "send"
  /\ rq.pc = node
  /\ \/ \E n \in lo..hi :
          LET st == MergeState(rq.state, (field :> LLMText(frags, n))) IN
          /\ PutCheckpoint(t, st)
          /\ PutWrites(t)
          /\ Upd(r, [rq EXCEPT !.pc = next, !.state = st])
     \/ /\ UNCHANGED CkptTables
        /\ Upd(r, Caught(rq))
  /\ UNCHANGED <<chat, msgTable, milvusLoaded>>

ReflectInvoke(r) ==
  NodeInvoke(r, "reflect", "reflection", ReflectFrags, 1, MaxReflectFrags, "generate")

GenerateInvoke(r) ==
  NodeInvoke(r, "generate", "response", GenerateFrags, 0, MaxFrags, "insert_ai")

\* reflectNode / generateNode under streamEvents: the LLM hands out its next
\* fragment as an event of the node, which the route's loop handles; or the
\* provider fails
NodeChunk(r, node, frags, hi) ==
  LET rq == req[r] IN
  /\ rq.kind = "stream"
  /\ rq.pc = node
  /\ \/ /\ rq.nFrag < hi
        /\ LET frag == frags[rq.nFrag + 1] IN
           Upd(r, OnEvent([rq EXCEPT !.nFrag = @ + 1,
                                     !.llmOut = Append(@, frag)],
                          [node |-> node, chunk |-> frag]))
     \/ Upd(r, Caught([rq EXCEPT !.nFrag = 0, !.llmOut = <<>>]))
  /\ UNCHANGED Tables

ReflectChunk(r) == NodeChunk(r, "reflect", ReflectFrags, MaxReflectFrags)

GenerateChunk(r) == NodeChunk(r, "generate", GenerateFrags, MaxFrags)

\* the LLM stream ends: the node returns its field, the run merges it and saves
\* the checkpoint of the step
NodeEnd(r, node, field, lo, next) ==
  LET rq == req[r] t == rq.chatId
      st == MergeState(rq.state, (field :> Concat(rq.llmOut)))
  IN
  /\ rq.kind = "stream"
  /\ rq.pc = node
  /\ rq.nFrag >= lo
  /\ PutCheckpoint(t, st)
  /\ PutWrites(t)
  /\ Upd(r, OnEvent([rq EXCEPT !.pc = next, !.state = st, !.nFrag = 0,
                               !.llmOut = <<>>],
                    [node |-> node, chunk |-> NoChunk]))
  /\ UNCHANGED <<chat, msgTable, milvusLoaded>>

\* ReflectEnd with reflectNode returning its text as `response`
ReflectEndAsResponse(r) == NodeEnd(r, "reflect", "response", 1, "generate")

ReflectEnd(r) == NodeEnd(r, "reflect", "reflection", 1, "generate")

\* GenerateEnd with an edge from generate back to reflect
GenerateEndBackEdge(r) == NodeEnd(r, "generate", "response", 0, "reflect")

GenerateEnd(r) == NodeEnd(r, "generate", "response", 0, "stream_persist")

\* ------------------------------------------------ end of the blocking route
\* db.insert(tmsg) of the reply, inside the try block
InsertAIMessage(r) ==
  LET rq == req[r] t == rq.chatId IN
  /\ rq.pc = "insert_ai"
  /\ \/ /\ chat[t].exists
        /\ msgTable' = [msgTable EXCEPT ![t] =
                          Append(@, [role |-> "ai", content |-> rq.state.response])]
        /\ Upd(r, [rq EXCEPT !.pc = "update_chat_ai"])
     \/ /\ UNCHANGED msgTable
        /\ Upd(r, Caught(rq))
  /\ UNCHANGED <<chat, CkptTables, milvusLoaded>>

\* db.update(chat) lastMessage, then the 200 answer with finalState.response
UpdateChatAI(r) ==
  LET rq == req[r] t == rq.chatId IN
  /\ rq.pc = "update_chat_ai"
  /\ \/ /\ chat' = [chat EXCEPT ![t].lastMessage =
                      IF chat[t].exists THEN Slice20(rq.state.response) ELSE @]
        /\ Upd(r, Finish(rq, "ok"))
     \/ /\ UNCHANGED chat
        /\ Upd(r, Caught(rq))
  /\ UNCHANGED <<msgTable, CkptTables, milvusLoaded>>

\* ----------------------------------------------- end of the streaming route
\* the client goes away in the middle of the reply: some token is out, the
\* stream of the generate node is still open
ClientDisconnect(r) ==
  LET rq == req[r] IN
  /\ rq.kind = "stream"
  /\ rq.pc = "generate"
  /\ rq.nFrag >= 1
  /\ rq.connected
  /\ Upd(r, [rq EXCEPT !.connected = FALSE])
  /\ UNCHANGED Tables

\* catch (error): write the `error` record
StreamCatch(r) ==
  LET rq == req[r] IN
  /\ rq.pc = "stream_catch"
  /\ Upd(r, [Write(rq, "error", <<"e">>) EXCEPT !.pc = "stream_persist"])
  /\ UNCHANGED Tables

\* an exception that leaves the streamSSE callback: the wrapper logs it and
\* closes the stream
Escaped(rq) == Finish([rq EXCEPT !.closed = TRUE], "stream_aborted")

\* if (finalResponse): db.insert(tmsg) of the reply, outside the try block
StreamInsertAI(r) ==
  LET rq == req[r] t == rq.chatId IN
  /\ rq.pc = "stream_persist"
  /\ rq.finalResponse # <<>>
  /\ \/ /\ chat[t].exists
        /\ msgTable' = [msgTable EXCEPT ![t] =
                          Append(@, [role |-> "ai", content |-> rq.finalResponse])]
        /\ Upd(r, [rq EXCEPT !.pc = "stream_update"])
     \/ /\ UNCHANGED msgTable
        /\ Upd(r, Escaped(rq))
  /\ UNCHANGED <<chat, CkptTables, milvusLoaded>>

\* db.update(chat) lastMessage: finalResponse.slice(0, 20)
StreamUpdateChat(r) ==
  LET rq == req[r] t == rq.chatId IN
  /\ rq.pc = "stream_update"
  /\ \/ /\ chat' = [chat EXCEPT ![t].lastMessage =
                      IF chat[t].exists THEN Slice20(rq.finalResponse) ELSE @]
        /\ Upd(r, [rq EXCEPT !.pc = "stream_final"])
     \/ /\ UNCHANGED chat
        /\ Upd(r, Escaped(rq))
  /\ UNCHANGED <<msgTable, CkptTables, milvusLoaded>>

\* stream.write of `final`, then stream.close
StreamFinal(r) ==
  LET rq == req[r] IN
  /\ \/ rq.pc = "stream_final"
     \/ rq.pc = "stream_persist" /\ rq.finalResponse = <<>>
  /\ Upd(r, Finish([Write(rq, "final", <<>>) EXCEPT !.closed = TRUE],
                   "stream_done"))
  /\ UNCHANGED Tables


\* ------------------------------------------- clear messages, delete chat
ClearBegin(r) ==
  /\ Arrives(r)
  /\ \E user \in Users \cup {NoSession}, chatId \in Threads :
       Enter(r, "clear", user, chatId, <<>>, "clear_delete")
  /\ UNCHANGED Tables

\* db.delete(tmsg).where(chatId)
ClearDeleteMessages(r) ==
  LET rq == req[r] t == rq.chatId IN
  /\ rq.pc = "clear_delete"
  /\ \/ /\ msgTable' = [msgTable EXCEPT ![t] = <<>>]
        /\ Upd(r, [rq EXCEPT !.pc = "clear_update", !.delMsgs = TRUE])
     \/ /\ UNCHANGED msgTable
        /\ Upd(r, Finish(rq, "internal_error"))
  /\ UNCHANGED <<chat, CkptTables, milvusLoaded>>

\* db.update(chat) lastMessage: ''
ClearUpdateChat(r) ==
  LET rq == req[r] t == rq.chatId IN
  /\ rq.pc = "clear_update"
  /\ \/ /\ chat' = [chat EXCEPT ![t].lastMessage =
                      IF chat[t].exists THEN <<>> ELSE @]
        /\ Upd(r, [rq EXCEPT !.pc = "tx"])
     \/ /\ UNCHANGED chat
        /\ Upd(r, Finish(rq, "internal_error"))
  /\ UNCHANGED <<msgTable, CkptTables, milvusLoaded>>

\* the delete-chat route checks the session only; the creator is part of the
\* WHERE clause of its delete
DeleteChatBegin(r) ==
  /\ Arrives(r)
  /\ \E user \in Users \cup {NoSession}, chatId \in Threads :
       LET base == [req[r] EXCEPT !.kind = "delete_chat", !.chatId = chatId,
                                  !.user = user]
       IN Upd(r, IF user = NoSession
                   THEN Finish(base, "unauthorized")
                   ELSE [base EXCEPT !.pc = "chat_delete"])
  /\ UNCHANGED Tables

\* db.delete(ct).where(id, creatorId); the message rows go with the chat
\* (ON DELETE cascade); rowCount 0 answers 403
DeleteChatRow(r) ==
  LET rq == req[r] t == rq.chatId IN
  /\ rq.pc = "chat_delete"
  /\ \/ /\ chat[t].exists /\ chat[t].creatorId = rq.user
        /\ chat' = [chat EXCEPT ![t].exists = FALSE]
        /\ msgTable' = [msgTable EXCEPT ![t] = <<>>]
        /\ Upd(r, [rq EXCEPT !.pc = "tx", !.delMsgs = TRUE])
     \/ /\ ~(chat[t].exists /\ chat[t].creatorId = rq.user)
        /\ UNCHANGED <<chat, msgTable>>
        /\ Upd(r, Finish(rq, "forbidden"))
     \/ /\ UNCHANGED <<chat, msgTable>>
        /\ Upd(r, Finish(rq, "internal_error"))
  /\ UNCHANGED <<CkptTables, milvusLoaded>>

\* the rows of a thread in the three checkpoint tables
CkptRows(t) == [cp |-> ckpt[t], w |-> ckptWrites[t], b |-> ckptBlobs[t]]

SetCkptRows(t, rows) ==
  /\ ckpt' = [ckpt EXCEPT ![t] = rows.cp]
  /\ ckptWrites' = [ckptWrites EXCEPT ![t] = rows.w]
  /\ ckptBlobs' = [ckptBlobs EXCEPT ![t] = rows.b]

\* DELETE FROM checkpoints / checkpoint_writes / checkpoint_blobs, in the order
\* the three statements are issued
DeleteFrom(rows, n) ==
  IF n = 1 THEN [rows EXCEPT !.cp = NoCkpt]
  ELSE IF n = 2 THEN [rows EXCEPT !.w = 0]
  ELSE [rows EXCEPT !.b = 0]

\* TxStatement with db.execute in place of tx.execute: the statement commits
\* on its own
TxStatementAutocommit(rows, n) == DeleteFrom(rows, n)

\* what the other connections see of a statement run with tx.execute inside
\* db.transaction: nothing before the commit
TxStatement(rows, n) == rows

\* TxCommitted without the delete from checkpoint_blobs
TxCommittedTwoTables(rows) == DeleteFrom(DeleteFrom(rows, 1), 2)

\* the commit makes the three deletes visible together
TxCommitted(rows) == DeleteFrom(DeleteFrom(DeleteFrom(rows, 1), 2), 3)

\* db.transaction: one of the three tx.execute; a failing statement rejects
\* Promise.all and the transaction is rolled back
TxExecute(r) ==
  LET rq == req[r] t == rq.chatId IN
  /\ rq.pc = "tx"
  /\ rq.txN < 3
  /\ \/ /\ SetCkptRows(t, TxStatement(CkptRows(t), rq.txN + 1))
        /\ Upd(r, [rq EXCEPT !.txN = @ + 1])
     \/ /\ UNCHANGED <<ckpt, ckptWrites, ckptBlobs>>
        /\ Upd(r, Finish(rq, "internal_error"))
  /\ UNCHANGED <<chat, msgTable, ckptSeq, milvusLoaded>>

\* db.transaction: commit, then the 200 answer
TxCommit(r) ==
  LET rq == req[r] t == rq.chatId IN
  /\ rq.pc = "tx"
  /\ rq.txN = 3
  /\ SetCkptRows(t, TxCommitted(CkptRows(t)))
  /\ Upd(r, Finish([rq EXCEPT !.delCkpt = TRUE], "ok"))
  /\ UNCHANGED <<chat, msgTable, ckptSeq, milvusLoaded>>

\* ------------------------------------------- create chat, delete contact
Characters == {<<"A">>, <<"B">>}

\* a chat id that holds no row
NoChatRow ==
  [exists |-> FALSE, creatorId |-> "none", characterId |-> <<>>, lastMessage |-> <<>>]

\* the chats of a user with a character
ChatsOf(user, characterId) ==
  {t \in Threads : /\ chat[t].exists
                   /\ chat[t].creatorId = user
                   /\ chat[t].characterId = characterId}

\* a step of a contact or create-chat route: the locals of the request change
UpdReq(r, rec) == req' = [req EXCEPT ![r] = rec]

\* createChatRoute: the session check
CreateChatBegin(r) ==
  /\ Arrives(r)
  /\ \E user \in Users \cup {NoSession}, characterId \in Characters :
       LET base == [req[r] EXCEPT !.kind = "create_chat", !.user = user,
                                  !.characterId = characterId]
       IN UpdReq(r, IF user = NoSession
                      THEN Finish(base, "unauthorized")
                      ELSE [base EXCEPT !.pc = "cc_find"])
  /\ UNCHANGED <<Tables, contact>>

\* db.query.chat.findFirst(creatorId, characterId): an existing chat answers
\* 409 CHAT_EXISTS
CreateChatFind(r) ==
  LET rq == req[r] IN
  /\ rq.pc = "cc_find"
  /\ \/ /\ ChatsOf(rq.user, rq.characterId) # {}
        /\ UpdReq(r, Finish(rq, "chat_exists"))
     \/ /\ ChatsOf(rq.user, rq.characterId) = {}
        /\ UpdReq(r, [rq EXCEPT !.pc = "cc_insert"])
     \/ UpdReq(r, Finish(rq, "internal_error"))
  /\ UNCHANGED <<Tables, contact>>

\* db.insert(ct): a new row under a fresh id, then the 201 answer
CreateChatInsert(r) ==
  LET rq == req[r] IN
  /\ rq.pc = "cc_insert"
  /\ \/ \E t \in Threads :
          /\ ~chat[t].exists
          /\ chat' = [chat EXCEPT ![t] =
                        [exists |-> TRUE, creatorId |-> rq.user,
                         characterId |-> rq.characterId, lastMessage |-> <<>>]]
          /\ UpdReq(r, Finish([rq EXCEPT !.chatId = t], "created"))
     \/ /\ UNCHANGED chat
        /\ UpdReq(r, Finish(rq, "internal_error"))
  /\ UNCHANGED <<msgTable, CkptTables, milvusLoaded, contact>>

\* the rows the delete-contact transaction works on
ContactTables ==
  [contact |-> contact, chat |-> chat, msgTable |-> msgTable, ckpt |-> ckpt,
   ckptWrites |-> ckptWrites, ckptBlobs |-> ckptBlobs]

SetContactTables(tb) ==
  /\ contact' = tb.contact
  /\ chat' = tb.chat
  /\ msgTable' = tb.msgTable
  /\ ckpt' = tb.ckpt
  /\ ckptWrites' = tb.ckptWrites
  /\ ckptBlobs' = tb.ckptBlobs

\* tx.delete(userCharacterContacts).where(userId, characterId)
DeleteContactRowOf(tb, user, characterId) ==
  [tb EXCEPT !.contact = @ \ {<<user, characterId>>}]

\* for one chat: tx.delete(message), the three checkpoint DELETEs, tx.delete(chat)
DeleteChatDataOf(tb, t) ==
  [tb EXCEPT !.msgTable[t] = <<>>,
             !.ckpt[t] = NoCkpt,
             !.ckptWrites[t] = 0,
             !.ckptBlobs[t] = 0,
             !.chat[t] = NoChatRow]

RECURSIVE DeleteChatsOf(_, _)
DeleteChatsOf(tb, ts) ==
  IF ts = {} THEN tb
  ELSE LET t == CHOOSE x \in ts : TRUE
       IN DeleteChatsOf(DeleteChatDataOf(tb, t), ts \ {t})

\* ContactTxStatement with the statements run on db in place of tx: each one
\* commits on its own
ContactTxStatementAutocommit(tb, after) == after

\* what the other connections see of a statement of the delete-contact
\* transaction before its commit: the rows as they were
ContactTxStatement(tb, after) == tb

\* deleteContactRoute: the session check
DeleteContactBegin(r) ==
  /\ Arrives(r)
  /\ \E user \in Users \cup {NoSession}, characterId \in Characters :
       LET base == [req[r] EXCEPT !.kind = "delete_contact", !.user = user,
                                  !.characterId = characterId]
       IN UpdReq(r, IF user = NoSession
                      THEN Finish(base, "unauthorized")
                      ELSE [base EXCEPT !.pc = "dc_contact"])
  /\ UNCHANGED <<Tables, contact>>

\* another transaction holds the delete of the same contact row
ContactRowLocked(r) ==
  \E q \in Reqs \ {r} :
    /\ req[q].kind = "delete_contact"
    /\ req[q].pc \in {"dc_find", "dc_chats"}
    /\ req[q].user = req[r].user
    /\ req[q].characterId = req[r].characterId

\* in the transaction: delete of the contact row, returning the rows deleted;
\* no row throws, which rolls back and answers 404
DeleteContactRow(r) ==
  LET rq == req[r] IN
  /\ rq.pc = "dc_contact"
  /\ ~ContactRowLocked(r)
  /\ \/ /\ <<rq.user, rq.characterId>> \in contact
        /\ SetContactTables(
             ContactTxStatement(ContactTables,
               DeleteContactRowOf(ContactTables, rq.user, rq.characterId)))
        /\ UpdReq(r, [rq EXCEPT !.pc = "dc_find"])
     \/ /\ <<rq.user, rq.characterId>> \notin contact
        /\ SetContactTables(ContactTables)
        /\ UpdReq(r, Finish(rq, "not_found"))
     \/ /\ SetContactTables(ContactTables)
        /\ UpdReq(r, Finish(rq, "internal_error"))
  /\ UNCHANGED <<ckptSeq, milvusLoaded>>

\* in the transaction: tx.query.chat.findMany(creatorId, characterId)
DeleteContactFind(r) ==
  LET rq == req[r] IN
  /\ rq.pc = "dc_find"
  /\ \/ UpdReq(r, [rq EXCEPT !.pc = "dc_chats",
                             !.found = ChatsOf(rq.user, rq.characterId),
                             !.todo = ChatsOf(rq.user, rq.characterId)])
     \/ UpdReq(r, Finish(rq, "internal_error"))
  /\ UNCHANGED <<Tables, contact>>

\* in the transaction: the statements of the loop for one chat that was found;
\* a failing statement rolls the transaction back and answers 500
DeleteContactChat(r) ==
  LET rq == req[r] IN
  /\ rq.pc = "dc_chats"
  /\ rq.todo # {}
  /\ \/ \E t \in rq.todo :
          /\ SetContactTables(
               ContactTxStatement(ContactTables, DeleteChatDataOf(ContactTables, t)))
          /\ UpdReq(r, [rq EXCEPT !.todo = @ \ {t}])
     \/ /\ SetContactTables(ContactTables)
        /\ UpdReq(r, Finish([rq EXCEPT !.todo = {}], "internal_error"))
  /\ UNCHANGED <<ckptSeq, milvusLoaded>>

\* the commit of the transaction makes its deletes visible together; then the
\* success answer
DeleteContactCommit(r) ==
  LET rq == req[r] IN
  /\ rq.pc = "dc_chats"
  /\ rq.todo = {}
  /\ \/ /\ SetContactTables(
             DeleteChatsOf(DeleteContactRowOf(ContactTables, rq.user, rq.characterId),
                           rq.found))
        /\ UpdReq(r, Finish(rq, "ok"))
     \/ /\ SetContactTables(ContactTables)
        /\ UpdReq(r, Finish(rq, "internal_error"))
  /\ UNCHANGED <<ckptSeq, milvusLoaded>>

\* ---------------------------------------------------------- specification
\* Requests are handled concurrently: any handler that is not finished may take
\* its next step.
Next ==
  \E r \in Reqs :
    \/ SendBegin(r)
    \/ StreamBegin(r)
    \/ InsertUserMessage(r)
    \/ UpdateChatUser(r)
    \/ ReadHistory(r)
    \/ GraphLoad(r)
    \/ GraphInput(r)
    \/ RetrieveLoad(r)
    \/ RetrieveSearch(r)
    \/ RetrieveRelease(r)
    \/ ReflectInvoke(r)
    \/ GenerateInvoke(r)
    \/ ReflectChunk(r)
    \/ ReflectEnd(r)
    \/ GenerateChunk(r)
    \/ GenerateEnd(r)
    \/ InsertAIMessage(r)
    \/ UpdateChatAI(r)
    \/ ClientDisconnect(r)
    \/ StreamCatch(r)
    \/ StreamInsertAI(r)
    \/ StreamUpdateChat(r)
    \/ StreamFinal(r)
    \/ ClearBegin(r)
    \/ ClearDeleteMessages(r)
    \/ ClearUpdateChat(r)
    \/ DeleteChatBegin(r)
    \/ DeleteChatRow(r)
    \/ TxExecute(r)
    \/ TxCommit(r)

Spec == Init /\ [][Next]_vars

\* A single request arrives: the other request slots stay unused.
SoloInit ==
  /\ chat = [t \in Threads |->
              [exists |-> TRUE, creatorId |-> ChatCreator[t],
               characterId |-> ChatCharacter[t], lastMessage |-> <<>>]]
  /\ msgTable = [t \in Threads |-> <<>>]
  /\ ckpt = [t \in Threads |-> NoCkpt]
  /\ ckptWrites = [t \in Threads |-> 0]
  /\ ckptBlobs = [t \in Threads |-> 0]
  /\ ckptSeq = [t \in Threads |-> 0]
  /\ milvusLoaded = FALSE
  /\ contact = ChatContacts
  /\ req = [r \in Reqs |-> IF r = 1 THEN IdleReq ELSE Finish(IdleReq, "none")]

SpecSolo == SoloInit /\ [][Next]_vars

\* A single request arrives on a system in which chat t1 has had one blocking
\* turn: its user row and reply row, the lastMessage of the reply and the
\* checkpoint rows of the run (one per step, one write entry per node).
TurnState ==
  MergeState(
    MergeState(
      MergeState(
        MergeState(EmptyState,
                   [messages |-> << HumanMessage(<<"H", "i">>), HumanMessage(<<"H", "i">>) >>,
                    characterName |-> ChatCharacter["t1"]]),
        [context |-> JoinContext(Take(IndexHits(ChatCharacter["t1"]), DefaultK))]),
      [reflection |-> LLMText(ReflectFrags, 1)]),
    [response |-> LLMText(GenerateFrags, 1)])

AfterTurnInit ==
  /\ chat = [t \in Threads |->
              [exists |-> TRUE, creatorId |-> ChatCreator[t],
               characterId |-> ChatCharacter[t],
               lastMessage |-> IF t = "t1" THEN Slice20(TurnState.response) ELSE <<>>]]
  /\ msgTable = [t \in Threads |->
                  IF t = "t1"
                    THEN << [role |-> "user", content |-> <<"H", "i">>],
                            [role |-> "ai", content |-> TurnState.response] >>
                    ELSE <<>>]
  /\ ckpt = [t \in Threads |->
              IF t = "t1" THEN [id |-> 4, state |-> TurnState] ELSE NoCkpt]
  /\ ckptWrites = [t \in Threads |-> IF t = "t1" THEN 3 ELSE 0]
  /\ ckptBlobs = [t \in Threads |-> IF t = "t1" THEN 4 ELSE 0]
  /\ ckptSeq = [t \in Threads |-> IF t = "t1" THEN 4 ELSE 0]
  /\ milvusLoaded = FALSE
  /\ contact = ChatContacts
  /\ req = [r \in Reqs |-> IF r = 1 THEN IdleReq ELSE Finish(IdleReq, "none")]

SpecAfterTurn == AfterTurnInit /\ [][Next]_vars

\* Create-chat and delete-contact requests, handled concurrently. At start a
\* chat id holds the chat of its creator with character A, with the rows a
\* turn leaves, or no row; each user has character A as contact or not.
ContactInit ==
  /\ \E held \in SUBSET Threads :
       /\ chat = [t \in Threads |->
                   IF t \in held
                     THEN [exists |-> TRUE, creatorId |-> ChatCreator[t],
                           characterId |-> <<"A">>,
                           lastMessage |-> Slice20(TurnState.response)]
                     ELSE NoChatRow]
       /\ msgTable = [t \in Threads |->
                       IF t \in held
                         THEN << [role |-> "user", content |-> <<"H", "i">>],
                                 [role |-> "ai", content |-> TurnState.response] >>
                         ELSE <<>>]
       /\ ckpt = [t \in Threads |->
                   IF t \in held THEN [id |-> 4, state |-> TurnState] ELSE NoCkpt]
       /\ ckptWrites = [t \in Threads |-> IF t \in held THEN 3 ELSE 0]
       /\ ckptBlobs = [t \in Threads |-> IF t \in held THEN 4 ELSE 0]
       /\ ckptSeq = [t \in Threads |-> IF t \in held THEN 4 ELSE 0]
  /\ milvusLoaded = FALSE
  /\ contact \in SUBSET {<<u, <<"A">>>> : u \in Users}
  /\ req = [r \in Reqs |-> IdleReq]

ContactNext ==
  \E r \in Reqs :
    \/ CreateChatBegin(r)
    \/ CreateChatFind(r)
    \/ CreateChatInsert(r)
    \/ DeleteContactBegin(r)
    \/ DeleteContactRow(r)
    \/ DeleteContactFind(r)
    \/ DeleteContactChat(r)
    \/ DeleteContactCommit(r)

SpecContacts == ContactInit /\ [][ContactNext]_vars

\* ------------------------------------------------------------ properties
Sends == {r \in Reqs : req[r].kind \in {"send", "stream"}}
Streams == {r \in Reqs : req[r].kind = "stream"}
Deletes == {r \in Reqs : req[r].kind \in {"clear", "delete_chat"}}

\* the turn of r ran to the end of its route without an error
TurnSucceeded(r) ==
  /\ r \in Sends
  /\ req[r].pc = "done"
  /\ req[r].status \in {"ok", "stream_done"}
  /\ ~req[r].raised

\* the text of the `token` records among the emitted records, in order
RECURSIVE TokenText(_)
TokenText(events) ==
  IF events = <<>> THEN <<>>
  ELSE (IF Head(events).type = "token" THEN Head(events).content ELSE <<>>)
         \o TokenText(Tail(events))

EventTypes(events) == [i \in 1..Len(events) |-> events[i].type]

CountType(events, type) == Cardinality({i \in 1..Len(events) : events[i].type = type})

HasCkptRows(t) == ckpt[t] # NoCkpt \/ ckptWrites[t] > 0 \/ ckptBlobs[t] > 0

\* the run of r saves the checkpoint of its last node in this step
TurnCommits(r) ==
  /\ req[r].pc = "generate"
  /\ req'[r].pc \in {"insert_ai", "stream_persist"}

\* C1: message-append invariant. When a turn commits its final checkpoint, the
\* persisted messages are the messages persisted before the turn followed by
\* exactly one user entry (the new message) and one assistant entry (the reply).
C1_MessageAppend ==
  [][\A r \in Reqs :
       TurnCommits(r) =>
         LET t == req[r].chatId IN
         ckpt'[t].state.messages =
           req[r].pre.state.messages
             \o << HumanMessage(req[r].msg),
                   [type |-> "ai", content |-> ckpt'[t].state.response] >>]_vars

\* the streaming route inserts the reply row in this step
StreamPersists(r) ==
  /\ req[r].kind = "stream"
  /\ req[r].pc = "stream_persist"
  /\ req'[r].pc = "stream_update"

\* C2: stream/persistence equivalence. The 'ai' row a streaming turn inserts
\* holds exactly the concatenation, in emission order, of the contents of the
\* turn's `token` records, and the turn emits no `token` after it persisted.
C2_StreamPersistenceEquivalence ==
  [][\A r \in Reqs :
       /\ StreamPersists(r) =>
            LET rows == msgTable'[req[r].chatId] IN
            /\ Len(rows) = Len(msgTable[req[r].chatId]) + 1
            /\ rows[Len(rows)] =
                 [role |-> "ai", content |-> TokenText(req[r].events)]
       /\ (req[r].kind = "stream"
             /\ req[r].pc \in {"stream_update", "stream_final", "done"}) =>
            TokenText(req'[r].events) = TokenText(req[r].events)]_vars

\* C2 witness: a reply of two fragments has been streamed and inserted.
C2_Witness ==
  \E r \in Streams :
    /\ req[r].pc = "stream_update"
    /\ ~req[r].raised
    /\ CountType(req[r].events, "token") = 2
    /\ msgTable[req[r].chatId] # <<>>
    /\ msgTable[req[r].chatId][Len(msgTable[req[r].chatId])].content
         = GenerateFrags[1] \o GenerateFrags[2]

\* the streaming callback of r has ended (normally or by an exception)
StreamEnded(r) ==
  /\ req[r].kind = "stream"
  /\ req[r].pc = "done"
  /\ req[r].status \in {"stream_done", "stream_aborted"}

\* C3: every streaming execution that started streaming ends with a `final`
\* record as its last record, followed by the close of the channel.
C3_FinalAlwaysLast ==
  \A r \in Reqs :
    StreamEnded(r) =>
      /\ req[r].events # <<>>
      /\ req[r].events[Len(req[r].events)].type = "final"
      /\ CountType(req[r].events, "final") = 1
      /\ req[r].closed

\* C4: when the run raises an error in a streaming turn, one `error` record is
\* emitted, no `token` record follows it, no second `error` is emitted, and the
\* channel is closed when the handler has ended.
C4_ErrorTerminal ==
  \A r \in Reqs :
    req[r].kind = "stream" =>
      LET ev == req[r].events IN
      /\ CountType(ev, "error") <= 1
      /\ \A i, j \in 1..Len(ev) :
           (ev[i].type = "error" /\ i < j) => ev[j].type \notin {"token", "reflection_chunk"}
      /\ (req[r].raised /\ req[r].pc \in {"stream_persist", "stream_update",
                                          "stream_final", "done"})
           => CountType(ev, "error") = 1
      /\ (~req[r].raised) => CountType(ev, "error") = 0
      /\ StreamEnded(r) => req[r].closed

\* C4 witness: generation failed after a token; the error record is out and the
\* channel is closed.
C4_Witness ==
  \E r \in Streams :
    /\ StreamEnded(r)
    /\ req[r].raised
    /\ req[r].closed
    /\ EventTypes(req[r].events) = <<"reflection_chunk", "token", "error", "final">>

\* reflect or generate of r fails in this step
NodeFails(r) ==
  /\ req[r].pc \in {"reflect", "generate"}
  /\ req'[r].raised

\* C5: when reflect or generate fails, the checkpoint persisted for the thread
\* is exactly the checkpoint that existed before the turn started.
C5_NoPartialCommit ==
  [][\A r \in Reqs :
       NodeFails(r) => ckpt'[req[r].chatId] = req[r].pre]_vars

\* C6: a streaming turn that was interrupted by an error after some tokens does
\* not insert the partial text as the reply.
C6_PartialNotPersisted ==
  [][\A r \in Reqs : StreamPersists(r) => ~req[r].raised]_vars

\* some row of the thread leaves one of the three checkpoint tables in this step
RowsRemoved(t) ==
  \/ ckpt[t] # NoCkpt /\ ckpt'[t] = NoCkpt
  \/ ckptWrites'[t] < ckptWrites[t]
  \/ ckptBlobs'[t] < ckptBlobs[t]

\* the checkpoint transaction of r fails in this step
TxFails(r) ==
  /\ req[r].pc = "tx"
  /\ req'[r].pc = "done"
  /\ req'[r].status = "internal_error"

\* C7: the delete of a thread's checkpoint data is atomic across checkpoints,
\* checkpoint_writes and checkpoint_blobs: a step that removes rows of one of
\* them leaves zero rows of the thread in all three, and a failing transaction
\* leaves the rows of all three as they were.
C7_AtomicCheckpointDelete ==
  [][/\ \A t \in Threads :
          RowsRemoved(t) =>
            ckpt'[t] = NoCkpt /\ ckptWrites'[t] = 0 /\ ckptBlobs'[t] = 0
     /\ \A r \in Reqs :
          TxFails(r) => UNCHANGED <<ckpt, ckptWrites, ckptBlobs>>]_vars

\* C7 witness: a delete committed on a thread that had checkpoint rows.
C7_Witness ==
  \E r \in Deletes :
    /\ req[r].pc = "done"
    /\ req[r].status = "ok"
    /\ req[r].delCkpt
    /\ ckptSeq[req[r].chatId] > 0
    /\ ~HasCkptRows(req[r].chatId)

\* C8: message history and checkpoint are removed in one logical transaction:
\* once a clear-messages or delete-chat request has finished, the thread has
\* both its history and its checkpoint rows or neither. Stated for the request
\* that causes it: a finished request that removed the history without
\* removing the checkpoint leaves no checkpoint rows without a history.
C8_DeletionTransactional ==
  \A r \in Reqs :
    (/\ r \in Deletes
     /\ req[r].pc = "done"
     /\ req[r].delMsgs /\ ~req[r].delCkpt
     /\ msgTable[req[r].chatId] = <<>>)
      => ~HasCkptRows(req[r].chatId)

\* C9: two overlapping turns on the same thread never both succeed having read
\* the same pre-turn checkpoint.
C9_TurnsSerialized ==
  \A r1, r2 \in Reqs :
    (/\ r1 # r2
     /\ TurnSucceeded(r1) /\ TurnSucceeded(r2)
     /\ req[r1].chatId = req[r2].chatId
     /\ r2 \in req[r1].overlap)
      => req[r1].pre.id # req[r2].pre.id

\* r is the only request that has entered its chat
OnlyOnThread(r) ==
  \A q \in Reqs \ {r} : req[q].pc = "idle" \/ req[q].chatId # req[r].chatId

\* what a turn on chat t persists as context when it runs alone
ContextAlone(t) == JoinContext(Take(IndexHits(ChatCharacter[t]), DefaultK))

\* C10: turns on different threads share no mutable state: a successful turn
\* that is the only one on its thread persists the state it would persist if
\* it ran alone, whatever the turns on the other threads do.
C10_ThreadsIndependent ==
  \A r \in Reqs :
    (TurnSucceeded(r) /\ OnlyOnThread(r)) =>
      ckpt[req[r].chatId].state.context = ContextAlone(req[r].chatId)

\* ------------------------------------------------------ graph topology
\* where the run of a request stands: 0 before the graph starts, 1 retrieve,
\* 2 reflect, 3 generate, 4 after the graph (END reached or the run given up)
Stage(pc) ==
  IF pc \in {"idle", "insert_user", "update_chat", "read_history",
             "graph_load", "graph_input"} THEN 0
  ELSE IF pc \in {"retrieve_load", "retrieve_search", "retrieve_release"} THEN 1
  ELSE IF pc = "reflect" THEN 2
  ELSE IF pc = "generate" THEN 3
  ELSE 4

\* a node of r returns in this step: its update is merged into the run's state
NodeReturns(r) ==
  /\ Stage(req[r].pc) \in 1..3
  /\ ~req'[r].raised
  /\ req'[r].state # req[r].state

\* C11: within one turn the nodes run on the single path START, retrieve,
\* reflect, generate, END: a node is entered only from its predecessor, the
\* step in which a node returns moves the run to the next node (so no node
\* runs twice), END is reached only from generate, and the run never goes
\* back to an earlier node or to any node after END.
C11_SinglePath ==
  [][\A r \in Reqs :
       LET a == Stage(req[r].pc) b == Stage(req'[r].pc) IN
       /\ b >= a
       /\ (b \in 1..3 /\ b # a) => (b = a + 1 /\ req'[r].kind \in {"send", "stream"})
       /\ NodeReturns(r) => b = a + 1
       /\ (a \in 1..3 /\ b = a + 1 /\ ~req'[r].raised) => NodeReturns(r)
       /\ (req'[r].pc \in {"insert_ai", "stream_persist"} /\ ~req'[r].raised
             /\ req[r].pc # req'[r].pc) => a = 3]_vars

\* C11 witness: a turn went through the three nodes and reached END; the state
\* it persisted holds the update of each node.
C11_Witness ==
  \E r \in Reqs :
    /\ TurnSucceeded(r)
    /\ LET st == ckpt[req[r].chatId].state IN
       /\ st.context # Absent
       /\ st.reflection # Absent
       /\ st.response # Absent
       /\ ckptWrites[req[r].chatId] = 3

\* ------------------------------------------------------------- reducers
\* messages and texts an update may carry
SampleMsgs == {HumanMessage(<<"H", "i">>), [type |-> "ai", content |-> <<"a">>]}
MsgSeqs == UNION {[1..n -> SampleMsgs] : n \in 0..MaxUpdMsgs}
SampleTexts == {<<>>, <<"k">>}

\* a channel of an update: not carried, or carried with a value
ChannelOpts(vals) ==
  {[has |-> FALSE, val |-> <<>>]} \cup {[has |-> TRUE, val |-> v] : v \in vals}

\* the update that carries the channels marked as carried
UpdOf(opt) == [f \in {g \in Fields : opt[g].has} |-> opt[f].val]

\* states an update is merged into: the states of the runs and of the
\* checkpoints, and a state with a history of two messages
AccumulatedStates ==
  {req[r].state : r \in Reqs} \cup {ckpt[t].state : t \in Threads}
    \cup {[EmptyState EXCEPT
             !.messages = << HumanMessage(<<"H", "i">>),
                             [type |-> "ai", content |-> <<"a">>] >>,
             !.context = <<"k">>]}

\* C12: the merge uses per-field reducers. The merged `messages` are the
\* existing ones followed by the update's, in order, none dropped or
\* deduplicated; each of characterName, context, reflection, response takes
\* the update's value when the update carries the field and keeps the previous
\* value otherwise; messages is the only concatenating field.
C12_PerFieldReducers ==
  \A st \in AccumulatedStates :
    \A m \in ChannelOpts(MsgSeqs) :
      \A n \in ChannelOpts({<<"A">>}), c, x, y \in ChannelOpts(SampleTexts) :
        LET upd == UpdOf([messages |-> m, characterName |-> n, context |-> c,
                          reflection |-> x, response |-> y])
            out == MergeState(st, upd)
            add == IF m.has THEN m.val ELSE <<>>
        IN
        /\ Len(out.messages) = Len(st.messages) + Len(add)
        /\ \A i \in 1..Len(st.messages) : out.messages[i] = st.messages[i]
        /\ \A j \in 1..Len(add) : out.messages[Len(st.messages) + j] = add[j]
        /\ \A f \in Fields \ {"messages"} :
             out[f] = IF f \in DOMAIN upd THEN upd[f] ELSE st[f]

\* C12 witness: the run merged its input into the thread's state and then the
\* update of retrieve: the messages are the input, context is set, and the
\* channels no update carried yet are as before.
C12_Witness ==
  \E r \in Reqs :
    /\ req[r].kind = "send"
    /\ req[r].pc = "reflect"
    /\ req[r].state.messages = req[r].pre.state.messages
                                 \o << HumanMessage(req[r].msg), HumanMessage(req[r].msg) >>
    /\ req[r].state.characterName = ChatCharacter[req[r].chatId]
    /\ req[r].state.context = ContextAlone(req[r].chatId)
    /\ req[r].state.reflection = Absent
    /\ req[r].state.response = Absent

\* ------------------------------------------------------------ retrieval
\* C13: retrieval degrades, it does not fail the turn: whatever the embedding
\* or the Milvus call does while the run is in retrieve, the run does not
\* raise; it goes on to reflect with a `context` that is present (the empty
\* text when the retrieval client failed).
C13_RetrieveDegrades ==
  [][\A r \in Reqs :
       Stage(req[r].pc) = 1 =>
         /\ ~req'[r].raised
         /\ Stage(req'[r].pc) \in {1, 2}
         /\ Stage(req'[r].pc) = 2 => req'[r].state.context # Absent]_vars

\* -------------------------------------------------------- authorization
\* r enters one of the two send routes in this step
EntersSend(r) == req[r].pc = "idle" /\ req'[r].kind \in {"send", "stream"}

\* C14: a send request (blocking or streaming) without a session ends with
\* 401, one for a chat that does not exist with 404, one for a chat of another
\* creator with 403; such a request writes no message row, leaves the chat row
\* and the checkpoint as they are, never starts the pipeline and does nothing
\* after its answer. A request that passes the three checks goes on.
C14_RejectedBeforePipeline ==
  [][\A r \in Reqs :
       /\ EntersSend(r) =>
            LET user == req'[r].user  t == req'[r].chatId IN
            /\ user = NoSession =>
                 req'[r].pc = "done" /\ req'[r].status = "unauthorized"
            /\ (user # NoSession /\ ~chat[t].exists) =>
                 req'[r].pc = "done" /\ req'[r].status = "not_found"
            /\ (user # NoSession /\ chat[t].exists /\ chat[t].creatorId # user) =>
                 req'[r].pc = "done" /\ req'[r].status = "forbidden"
            /\ (user # NoSession /\ chat[t].exists /\ chat[t].creatorId = user) =>
                 req'[r].pc = "insert_user"
            /\ req'[r].pc = "done" =>
                 /\ UNCHANGED Tables
                 /\ req'[r].pre = NoCkpt /\ req'[r].events = <<>>
       /\ (req[r].kind \in {"send", "stream"}
             /\ req[r].status \in {"unauthorized", "not_found", "forbidden"}) =>
            req'[r] = req[r]]_vars

\* C14 witness: a streaming send for a chat that was deleted has ended with 404
\* and nothing was written for it.
C14_Witness ==
  \E r \in Reqs :
    /\ req[r].kind = "stream"
    /\ req[r].pc = "done"
    /\ req[r].status = "not_found"
    /\ req[r].events = <<>>
    /\ msgTable[req[r].chatId] = <<>>
    /\ ckptSeq[req[r].chatId] = 0

\* ------------------------------------------------------ blocking outcomes
\* r is a blocking send that passed the checks and whose handler has ended
BlockingEnded(r) ==
  /\ req[r].kind = "send"
  /\ req[r].pc = "done"
  /\ req[r].status \notin {"unauthorized", "not_found", "forbidden"}

\* C15: an authorized blocking send ends either with the success answer, whose
\* reply text is the `response` of the final state, or with the typed error
\* answer INTERNAL_ERROR, whichever step failed, the insert of the user message
\* included.
C15_BlockingOutcomes ==
  \A r \in Reqs :
    BlockingEnded(r) => req[r].status \in {"ok", "internal_error"}

\* ------------------------------------------------- persisted before final
\* the streaming route of r writes its `final` record in this step
WritesFinal(r) ==
  /\ req[r].kind = "stream"
  /\ CountType(req'[r].events, "final") > CountType(req[r].events, "final")

\* C16: in a streaming turn that completes without error the reply is
\* persisted before `final` is written: when `final` goes out, the last row of
\* the chat is the turn's 'ai' row and its content is the concatenation of the
\* streamed `token` contents.
C16_PersistedBeforeFinal ==
  [][\A r \in Reqs :
       (WritesFinal(r) /\ ~req[r].raised) =>
         LET rows == msgTable[req[r].chatId] IN
         /\ rows # <<>>
         /\ rows[Len(rows)] = [role |-> "ai", content |-> TokenText(req[r].events)]]_vars

\* ----------------------------------------------------------- cancellation
\* C17: once the client of a streaming turn is gone, the generation call is
\* cancelled: no further fragment is taken from it, the run is given up
\* through the failure path, and the handler ends.
C17_DisconnectCancels ==
  [][\A r \in Reqs :
       (req[r].kind = "stream" /\ ~req[r].connected /\ req[r].pc = "generate") =>
         /\ req'[r].nFrag <= req[r].nFrag
         /\ Len(req'[r].events) = Len(req[r].events) \/ req'[r].raised
         /\ req'[r].pc # "stream_persist" \/ req'[r].raised]_vars

\* ----------------------------------------------------- token forwarding
IsToken(e) == e.type = "token"

\* the contents of the `token` records among the emitted records, in order
TokenContents(events) ==
  LET toks == SelectSeq(events, IsToken) IN
  [i \in 1..Len(toks) |-> toks[i].content]

NewEvents(r) == SubSeq(req'[r].events, Len(req[r].events) + 1, Len(req'[r].events))

\* C19: the multiplexer tags by originating node. While reflect runs only
\* `reflection_chunk` records are written, with the fragment of reflect as
\* content, and the accumulator does not change; while generate runs only
\* `token` records, with the fragment of generate, which is appended to the
\* accumulator; while retrieve runs (whose event carries the context as chunk)
\* nothing is written and nothing accumulated. The accumulator is always the
\* concatenation of the token contents, so no reflection text enters the reply
\* that is persisted.
C19_TaggedByNode ==
  [][\A r \in Reqs :
       (req[r].kind = "stream" /\ ~req'[r].raised) =>
         /\ Len(req'[r].events) >= Len(req[r].events)
         /\ Stage(req[r].pc) \in 0..1 =>
              /\ NewEvents(r) = <<>>
              /\ req'[r].finalResponse = <<>>
         /\ req[r].pc = "reflect" =>
              /\ req'[r].finalResponse = req[r].finalResponse
              /\ \/ NewEvents(r) = <<>>
                 \/ NewEvents(r) = << [type |-> "reflection_chunk",
                                       content |-> ReflectFrags[req[r].nFrag + 1]] >>
         /\ req[r].pc = "generate" =>
              \/ NewEvents(r) = <<>> /\ req'[r].finalResponse = req[r].finalResponse
              \/ /\ NewEvents(r) = << [type |-> "token",
                                       content |-> GenerateFrags[req[r].nFrag + 1]] >>
                 /\ req'[r].finalResponse =
                      req[r].finalResponse \o GenerateFrags[req[r].nFrag + 1]
         /\ req[r].finalResponse = Concat(TokenContents(req[r].events))
         /\ Stage(req[r].pc) = 4 => req'[r].finalResponse = req[r].finalResponse]_vars

\* C19 witness: a reflection fragment and a generate fragment were streamed;
\* the first went out as reflection_chunk, the second as token, and the 'ai'
\* row holds the generate text only.
C19_Witness ==
  \E r \in Reqs :
    /\ req[r].kind = "stream"
    /\ req[r].pc = "stream_final"
    /\ req[r].events = << [type |-> "reflection_chunk", content |-> ReflectFrags[1]],
                          [type |-> "token", content |-> GenerateFrags[1]] >>
    /\ req[r].finalResponse = GenerateFrags[1]
    /\ req[r].state.reflection = ReflectFrags[1]
    /\ msgTable[req[r].chatId][Len(msgTable[req[r].chatId])]
         = [role |-> "ai", content |-> GenerateFrags[1]]

\* ------------------------------------------------ input of the pipeline
\* how often the message m occurs in a list of messages
Occurrences(ms, m) == Cardinality({i \in 1..Len(ms) : ms[i] = m})

\* r has read the history and built the input of the pipeline in this step
BuildsInput(r) == req[r].pc = "read_history" /\ req'[r].pc = "graph_load"

\* C20: in both send routes the new user message is in the input handed to the
\* pipeline exactly once, as its last element: the input ends with it and
\* holds it as often as the stored rows do (the row of this turn among them),
\* no more.
C20_UserMessageOnceLast ==
  [][\A r \in Reqs :
       BuildsInput(r) =>
         LET in == req'[r].input
             m == HumanMessage(req[r].msg)
         IN
         /\ in # <<>>
         /\ in[Len(in)] = m
         /\ Occurrences(in, m) = Occurrences(MapLangChain(msgTable[req[r].chatId]), m)]_vars

\* ------------------------------------------------ failure of the reply insert
\* the insert of the reply row of r fails in this step, after a run that
\* succeeded
ReplyInsertFails(r) ==
  /\ ~req[r].raised
  /\ \/ req[r].pc = "insert_ai"
     \/ req[r].pc = "stream_persist" /\ req[r].finalResponse # <<>>
  /\ req'[r].pc = "done"

\* C21: a failure of the insert of the reply is not swallowed: the blocking
\* route answers the typed error, the streaming route reports an `error`
\* record; neither ends as if the reply had been persisted.
C21_PersistFailureReported ==
  [][\A r \in Reqs :
       ReplyInsertFails(r) =>
         /\ req'[r].status \notin {"ok", "stream_done"}
         /\ req'[r].kind = "send" => req'[r].status = "internal_error"
         /\ req'[r].kind = "stream" => CountType(req'[r].events, "error") >= 1]_vars

\* ---------------------------------------------------- updates of the nodes
\* the field the node at a stage of the run returns
OwnField(stage) ==
  IF stage = 1 THEN "context" ELSE IF stage = 2 THEN "reflection" ELSE "response"

\* C22: each node returns a partial update of its own field only: the step in
\* which retrieve, reflect or generate returns changes only context,
\* reflection or response of the run's state, the checkpoint of the step is
\* that state, and from the merge of the input to the end of the run
\* characterName and the messages stay what they were.
C22_NodesWriteOwnField ==
  [][\A r \in Reqs :
       /\ NodeReturns(r) =>
            /\ \A f \in Fields \ {OwnField(Stage(req[r].pc))} :
                 req'[r].state[f] = req[r].state[f]
            /\ req'[r].state[OwnField(Stage(req[r].pc))] # Absent
            /\ ckpt'[req[r].chatId].state = req'[r].state
       /\ (Stage(req[r].pc) \in 1..3 /\ ~req'[r].raised) =>
            /\ req'[r].state.messages = req[r].state.messages
            /\ req'[r].state.characterName = req[r].state.characterName]_vars

\* C22 witness: a streaming run has ended; its state holds the three fields of
\* the nodes, the character of the chat and the messages of the input.
C22_Witness ==
  \E r \in Reqs :
    /\ req[r].kind = "stream"
    /\ req[r].pc = "stream_persist"
    /\ ~req[r].raised
    /\ req[r].state = ckpt[req[r].chatId].state
    /\ req[r].state.characterName = ChatCharacter[req[r].chatId]
    /\ req[r].state.messages = << HumanMessage(req[r].msg) >>
    /\ req[r].state.context = ContextAlone(req[r].chatId)
    /\ req[r].state.reflection = ReflectFrags[1]
    /\ req[r].state.response = GenerateFrags[1] \o GenerateFrags[2]

\* ---------------------------------------------------------- clear messages
\* the tables hold what they held when the request arrived
AsAfterTurn ==
  /\ chat["t1"].lastMessage = Slice20(TurnState.response)
  /\ chat["t1"].exists
  /\ Len(msgTable["t1"]) = 2
  /\ ckpt["t1"] = [id |-> 4, state |-> TurnState]
  /\ ckptWrites["t1"] = 3
  /\ ckptBlobs["t1"] = 4

\* C23: after a clear-messages request by the creator of the chat has answered
\* success, the chat has no message row, its lastMessage is the empty text,
\* the three checkpoint tables hold no row of the chat, and the chat row
\* exists; a request by a user who is not the creator answers 403 and changes
\* nothing.
C23_ClearMessages ==
  \A r \in Reqs :
    (req[r].kind = "clear" /\ req[r].pc = "done") =>
      LET t == req[r].chatId IN
      /\ req[r].status = "ok" =>
           /\ req[r].user = ChatCreator[t]
           /\ msgTable[t] = <<>>
           /\ chat[t].lastMessage = <<>>
           /\ chat[t].exists
           /\ ckpt[t] = NoCkpt /\ ckptWrites[t] = 0 /\ ckptBlobs[t] = 0
      /\ (req[r].user # NoSession /\ req[r].user # ChatCreator[t]) =>
           /\ req[r].status = "forbidden"
           /\ AsAfterTurn

\* C23 witness: the creator has cleared the chat that had a turn.
C23_Witness ==
  \E r \in Reqs :
    /\ req[r].kind = "clear"
    /\ req[r].pc = "done"
    /\ req[r].status = "ok"
    /\ req[r].chatId = "t1"
    /\ ckptSeq["t1"] = 4
    /\ ~HasCkptRows("t1")
    /\ msgTable["t1"] = <<>>

\* the state AfterTurnInit starts from, as the routes leave it
AfterTurnReached ==
  /\ AsAfterTurn
  /\ msgTable["t1"] = << [role |-> "user", content |-> <<"H", "i">>],
                         [role |-> "ai", content |-> TurnState.response] >>
  /\ ckptSeq["t1"] = 4
  /\ \A r \in Reqs : req[r].pc \in {"idle", "done"}

\* ------------------------------------------------------------- delete chat
\* C25: deleting a chat is restricted to its creator and leaves no orphans: a
\* finished delete request of another user has answered an error and removed
\* neither the chat row nor a checkpoint row, and after a finished delete
\* request of the creator, whatever its answer, the chat row is not gone while
\* checkpoint rows of the thread remain.
C25_DeleteChatNoOrphans ==
  \A r \in Reqs :
    (req[r].kind = "delete_chat" /\ req[r].pc = "done") =>
      LET t == req[r].chatId IN
      /\ req[r].user # ChatCreator[t] =>
           /\ req[r].status \in {"unauthorized", "forbidden", "internal_error"}
           /\ chat[t].exists
           /\ t = "t1" => AsAfterTurn
      /\ req[r].user = ChatCreator[t] =>
           ~(~chat[t].exists /\ HasCkptRows(t))

\* ------------------------------------------------------------ message rows
\* no request on chat t is being handled
Quiescent(t) == \A r \in Reqs : req[r].pc \in {"idle", "done"} \/ req[r].chatId # t

RowsOfRole(rows, role) == Cardinality({i \in 1..Len(rows) : rows[i].role = role})

\* C27: message rows are written in user/assistant pairs: when the send
\* requests on a chat have ended, however they ended, the chat has as many
\* 'ai' rows as 'user' rows and its history does not end with a user row.
C27_RowsInPairs ==
  \A t \in Threads :
    (Quiescent(t) /\ \A r \in Reqs : req[r].kind \in {"none", "send", "stream"}) =>
      /\ RowsOfRole(msgTable[t], "ai") = RowsOfRole(msgTable[t], "user")
      /\ msgTable[t] # <<>> => msgTable[t][Len(msgTable[t])].role = "ai"

\* ------------------------------------------------------------- lastMessage
\* no request has failed: each one that ended has answered success
NoneFailed ==
  \A r \in Reqs :
    /\ ~req[r].raised
    /\ req[r].pc = "done" => req[r].status \in {"none", "ok", "stream_done"}

\* C28: whenever no request on a chat is in flight, chat.lastMessage is the
\* first 20 characters of the content of the chat's most recently inserted
\* message row, or the empty text when the chat has no message row, after any
\* interleaving of send, send-stream and clear-messages requests (stated for
\* runs in which no request failed).
C28_LastMessage ==
  \A t \in Threads :
    (/\ Quiescent(t)
     /\ chat[t].exists
     /\ NoneFailed
     /\ \A r \in Reqs : req[r].kind \in {"none", "send", "stream", "clear"}) =>
      chat[t].lastMessage =
        IF msgTable[t] = <<>> THEN <<>>
        ELSE Slice20(msgTable[t][Len(msgTable[t])].content)

\* ------------------------------------------------------ order of the events
\* the place of a record type in the order of a stream
TypeRank(type) ==
  IF type = "reflection_chunk" THEN 1
  ELSE IF type = "token" THEN 2
  ELSE IF type = "error" THEN 3
  ELSE 4

\* the records so far are in the order reflection_chunk, token, error, final
InOrder(events) ==
  /\ \A i, j \in 1..Len(events) :
       i < j => TypeRank(events[i].type) <= TypeRank(events[j].type)
  /\ CountType(events, "error") <= 1
  /\ CountType(events, "final") <= 1

\* C29: within one streaming turn the records appear in the order: zero or
\* more reflection_chunk, then zero or more token, then at most one error,
\* then final; no reflection_chunk follows a token. At every moment the
\* records written are in that order, and the records of a stream that has
\* ended end with the one `final`.
C29_EventOrder ==
  \A r \in Reqs :
    req[r].kind = "stream" =>
      /\ InOrder(req[r].events)
      /\ (req[r].pc = "done"
            /\ req[r].status \notin {"unauthorized", "not_found", "forbidden", "unhandled"}) =>
           /\ req[r].events # <<>>
           /\ req[r].events[Len(req[r].events)].type = "final"

\* the order of the records alone, whether or not the stream got to `final`
EventsInOrder == \A r \in Reqs : req[r].kind = "stream" => InOrder(req[r].events)

\* ------------------------------------------------- load/release bracketing
\* C30: for any interleaving of concurrent MilvusService.search calls the
\* collection is loaded whenever the query of some call executes: no call's
\* releaseCollection takes effect between another call's loadCollection and
\* the end of that call's query.
C30_LoadedWhileSearching ==
  \A r \in Reqs : req[r].pc = "retrieve_search" => milvusLoaded

\* the rows kept under a chat id in the chat, message and checkpoint tables
RowsOf(t) == <<chat[t], msgTable[t], ckpt[t], ckptWrites[t], ckptBlobs[t]>>

NoRows == <<NoChatRow, <<>>, NoCkpt, 0, 0>>

\* C24: every step of a delete-contact request either leaves the contact, chat,
\* message and checkpoint tables as they are, or it is the commit answered with
\* success, which removes the contact row together with every chat of that user
\* with that character that the transaction found, their messages and their
\* rows of the three checkpoint tables, and nothing else; a contact that does
\* not exist is answered 404.
C24_DeleteContactAtomic ==
  [][\A r \in Reqs :
       (req'[r] # req[r] /\ req'[r].kind = "delete_contact") =>
         LET user == req'[r].user
             characterId == req'[r].characterId
         IN /\ IF req'[r].status = "ok"
                 THEN /\ <<user, characterId>> \in contact
                      /\ contact' = contact \ {<<user, characterId>>}
                      /\ \A t \in Threads :
                           IF t \in req[r].found
                             THEN /\ chat[t].creatorId = user
                                  /\ chat[t].characterId = characterId
                                  /\ RowsOf(t)' = NoRows
                             ELSE RowsOf(t)' = RowsOf(t)
                 ELSE UNCHANGED <<contact, chat, msgTable, ckpt, ckptWrites, ckptBlobs>>
            /\ (req[r].pc = "dc_find" /\ req'[r].pc = "dc_chats"
                  => req'[r].found = ChatsOf(user, characterId))
            /\ (req[r].pc = "dc_contact" /\ <<user, characterId>> \notin contact
                  => req'[r].status \in {"not_found", "internal_error"})
            /\ (req'[r].status = "not_found" => <<user, characterId>> \notin contact)
    ]_vars

C24_Witness ==
  \E r \in Reqs :
    /\ req[r].kind = "delete_contact"
    /\ req[r].status = "ok"
    /\ req[r].found # {}
    /\ <<req[r].user, req[r].characterId>> \notin contact
    /\ \A t \in req[r].found : RowsOf(t) = NoRows

\* C26: the chat table holds at most one row for a creator and a character.
C26_OneChatPerPair ==
  \A u \in Users, c \in Characters : Cardinality(ChatsOf(u, c)) <= 1

====
